---- MODULE Spec2Model ----
(***************************************************************************)
(* Screenly OSE server (src/server.py): the asset catalog API, the chunked *)
(* upload endpoint, playlist ordering and recovery, as a state machine.    *)
(*                                                                         *)
(* Strings are sequences of one-character strings, so that startswith,     *)
(* strip, split, path.join and int() are computed as Python computes them. *)
(* The helpers imported from lib/ (assets_helper, db, backup_helper,       *)
(* utils) are not part of src/; they are modelled from spec.md and are     *)
(* marked so where they are defined.                                       *)
(***************************************************************************)
EXTENDS Integers, Sequences, FiniteSets, TLC

VARIABLES
    files,      \* the host's file system: path -> content (sequence of bytes)
    assets,     \* the catalog table: asset_id -> stored record
    nextId,     \* number of ids uuid.uuid4() has handed out so far
    txn,        \* the playlist-order transaction in progress, or NoTxn
    reqlog,     \* the upload requests FileAsset.post has handled, in order
    last,       \* the last completed request and its response
    inflight,   \* per worker thread: the upload it is inside, or Idle
    channel,    \* the commands sent on the publisher's channel, in order
    conf        \* the settings: in memory (mem) and as saved (disk)

vars == <<files, assets, nextId, txn, reqlog, last, inflight, channel, conf>>

(***************************************************************************)
(* Bounds of the model.                                                    *)
(***************************************************************************)
MaxUploads == 2      \* upload requests handled in one behaviour
MaxChunk == 2        \* longest upload payload, in bytes
MaxGen == 1          \* asset ids generated in one behaviour
MaxClients == 3      \* asset ids chosen by clients of the playlist
MaxOrder == 3        \* largest play_order a create request may assign
MaxConcClients == 2  \* asset ids chosen by clients while a reorder is in flight
MaxSends == 3        \* control requests handled in one behaviour

(***************************************************************************)
(* Python string primitives.                                               *)
(***************************************************************************)
\* s.startswith(p)
StartsWith(s, p) == Len(s) >= Len(p) /\ SubSeq(s, 1, Len(p)) = p

\* s.endswith(p)
EndsWith(s, p) == Len(s) >= Len(p) /\ SubSeq(s, Len(s) - Len(p) + 1, Len(s)) = p

\* sub in s
Contains(s, sub) ==
    \E i \in 0..(Len(s) - Len(sub)) : SubSeq(s, i + 1, i + Len(sub)) = sub

\* s.strip(): leading and trailing blanks removed
RECURSIVE LStrip(_)
LStrip(s) == IF s # <<>> /\ Head(s) = " " THEN LStrip(Tail(s)) ELSE s

RECURSIVE RStrip(_)
RStrip(s) ==
    IF s # <<>> /\ s[Len(s)] = " " THEN RStrip(SubSeq(s, 1, Len(s) - 1)) ELSE s

Strip(s) == RStrip(LStrip(s))

\* s.split(sep) for a one-character separator: always at least one field
RECURSIVE SplitFrom(_, _, _)
SplitFrom(s, sep, cur) ==
    IF s = <<>> THEN <<cur>>
    ELSE IF Head(s) = sep THEN <<cur>> \o SplitFrom(Tail(s), sep, <<>>)
    ELSE SplitFrom(Tail(s), sep, Append(cur, Head(s)))

Split(s, sep) == SplitFrom(s, sep, <<>>)

\* os.path.join(a, b)
PathJoin(a, b) ==
    IF StartsWith(b, <<"/">>) THEN b
    ELSE IF a = <<>> \/ EndsWith(a, <<"/">>) THEN a \o b
    ELSE a \o <<"/">> \o b

\* settings['assetdir']: the managed media directory
AssetDir == <<"/", "m">>

TmpSuffix == <<".", "t", "m", "p">>

(***************************************************************************)
(* File system primitives.                                                 *)
(***************************************************************************)
\* os.path.isfile(p)
IsFile(fs, p) == p \in DOMAIN fs

\* a file created or replaced with content c
WriteFile(fs, p, c) == [q \in (DOMAIN fs) \cup {p} |-> IF q = p THEN c ELSE fs[q]]

\* os.remove(p) of an existing file
RemoveFile(fs, p) == [q \in (DOMAIN fs) \ {p} |-> fs[q]]

\* a copy in place of the rename: the file stays at src as well
RenameFileCopy(fs, src, dst) == WriteFile(fs, dst, fs[src])

\* os.rename(src, dst) of an existing file
RenameFile(fs, src, dst) ==
    [q \in ((DOMAIN fs) \ {src}) \cup {dst} |-> IF q = dst THEN fs[src] ELSE fs[q]]

\* open(p, 'a'); f.seek(start); f.write(data): a stream opened for appending
\* writes at the end of the file whatever the seek position (O_APPEND), and
\* creates the file when it does not exist.
AppendWrite(fs, p, start, data) ==
    WriteFile(fs, p, (IF IsFile(fs, p) THEN fs[p] ELSE <<>>) \o data)

(***************************************************************************)
(* FileAsset.post: the chunked upload endpoint.                            *)
(***************************************************************************)
\* the settings a fresh installation starts with (DEFAULTS)
Defaults == [show_splash |-> TRUE, user |-> "", password |-> ""]

\* the worker threads of the server ('threads': 2)
Threads == {"t1", "t2"}

\* a worker thread that is not inside FileAsset.post
Idle == [pc |-> "idle"]

\* no playlist-order transaction is open
NoTxn == [state |-> "none"]

\* no Content-Range header in the request
NoRange == -1

\* file_path = path.join(settings['assetdir'], filename) + ".tmp"
UploadPath(filename) == PathJoin(AssetDir, filename) \o TmpSuffix

\* the file system after the request: range is NoRange or the start offset
\* parsed from the Content-Range header
FileAssetPost(fs, filename, range, payload) ==
    IF range # NoRange
    THEN AppendWrite(fs, UploadPath(filename), range, payload)
    ELSE WriteFile(fs, UploadPath(filename), payload)

UploadRequest(filename, range, payload) ==
    [op |-> "upload", filename |-> filename, range |-> range, payload |-> payload,
     status |-> 200, body |-> UploadPath(filename)]

Upload(filename, range, payload) ==
    /\ Len(reqlog) < MaxUploads
    /\ files' = FileAssetPost(files, filename, range, payload)
    /\ reqlog' = Append(reqlog, UploadRequest(filename, range, payload))
    /\ last' = UploadRequest(filename, range, payload)
    /\ UNCHANGED <<assets, nextId, txn, inflight, channel, conf>>

(***************************************************************************)
(* FileAsset.post on the two worker threads, step by step.  Nothing in the *)
(* handler serializes requests: each thread opens the temporary file,      *)
(* writes through its own handle and returns.  file_upload.save opens the  *)
(* file for writing (which truncates it) and copies the upload buffer by   *)
(* buffer, each at the handle's own position; a byte of the model is one   *)
(* buffer.  The ranged branch writes its chunk in one write, in append     *)
(* mode.                                                                   *)
(***************************************************************************)
\* the byte a file reads where nothing was written (a hole)
Hole == "0"

\* write data at position off through a handle opened for writing
WriteAt(fs, p, off, data) ==
    LET old == IF IsFile(fs, p) THEN fs[p] ELSE <<>>
        len == IF Len(old) > off + Len(data) THEN Len(old) ELSE off + Len(data)
    IN  WriteFile(fs, p,
            [k \in 1..len |->
                IF k > off /\ k <= off + Len(data) THEN data[k - off]
                ELSE IF k <= Len(old) THEN old[k]
                ELSE Hole])

\* the thread enters FileAsset.post and opens the temporary file
UploadOpen(t, filename, range, payload) ==
    /\ inflight[t] = Idle
    /\ Len(reqlog) + Cardinality({u \in Threads : inflight[u] # Idle}) < MaxUploads
    /\ inflight' = [inflight EXCEPT ![t] =
           [pc |-> "open", filename |-> filename, range |-> range,
            payload |-> payload, pos |-> 0]]
    /\ files' = IF range = NoRange
                THEN WriteFile(files, UploadPath(filename), <<>>)
                ELSE IF IsFile(files, UploadPath(filename)) THEN files
                ELSE WriteFile(files, UploadPath(filename), <<>>)
    /\ UNCHANGED <<assets, nextId, txn, reqlog, last, channel, conf>>

\* the next write of the thread: the whole chunk in append mode, or the next
\* buffer of file_upload.save at the handle's position
UploadWrite(t) ==
    LET u == inflight[t]
    IN  /\ u.pc = "open"
        /\ u.pos < Len(u.payload)
        /\ IF u.range # NoRange
           THEN /\ files' = AppendWrite(files, UploadPath(u.filename), u.range, u.payload)
                /\ inflight' = [inflight EXCEPT ![t].pos = Len(u.payload)]
           ELSE /\ files' = WriteAt(files, UploadPath(u.filename), u.pos,
                                    <<u.payload[u.pos + 1]>>)
                /\ inflight' = [inflight EXCEPT ![t].pos = u.pos + 1]
        /\ UNCHANGED <<assets, nextId, txn, reqlog, last, channel, conf>>

\* the thread closes the file and answers the request
UploadReturn(t) ==
    LET u == inflight[t]
    IN  /\ u.pc = "open"
        /\ u.pos = Len(u.payload)
        /\ inflight' = [inflight EXCEPT ![t] = Idle]
        /\ reqlog' = Append(reqlog, UploadRequest(u.filename, u.range, u.payload))
        /\ last' = UploadRequest(u.filename, u.range, u.payload)
        /\ UNCHANGED <<files, assets, nextId, txn, channel, conf>>

(***************************************************************************)
(* Values of a request body.  A JSON string is its sequence of characters; *)
(* a JSON number is written as its decimal string; a key that is missing   *)
(* from the body reads as the empty string, as data.get(key, '') does.     *)
(***************************************************************************)
Digits == <<"0", "1", "2", "3", "4", "5", "6", "7", "8", "9">>

IsDigit(c) == \E d \in 1..Len(Digits) : Digits[d] = c

DigitVal(c) == (CHOOSE d \in 1..Len(Digits) : Digits[d] = c) - 1

RECURSIVE DigitsVal(_)
DigitsVal(s) ==
    IF s = <<>> THEN 0
    ELSE DigitsVal(SubSeq(s, 1, Len(s) - 1)) * Len(Digits) + DigitVal(s[Len(s)])

AllDigits(s) == s # <<>> /\ \A i \in 1..Len(s) : IsDigit(s[i])

\* whether int(s) succeeds: an optional sign and decimal digits, blanks around
IsIntStr(s) ==
    LET t == Strip(s)
    IN  IF t # <<>> /\ Head(t) \in {"-", "+"} THEN AllDigits(Tail(t)) ELSE AllDigits(t)

\* int(s), where it succeeds
ParseInt(s) ==
    LET t == Strip(s)
    IN  IF Head(t) = "-" THEN 0 - DigitsVal(Tail(t))
        ELSE IF Head(t) = "+" THEN DigitsVal(Tail(t))
        ELSE DigitsVal(t)

\* A timestamp is written as decimal digits, optionally followed by the zone
\* letter "Z".  date_parser.parse accepts it or raises ValueError;
\* .replace(tzinfo=None) drops the zone and keeps the digits.
IsDateStr(s) ==
    IF s # <<>> /\ s[Len(s)] = "Z" THEN AllDigits(SubSeq(s, 1, Len(s) - 1))
    ELSE AllDigits(s)

ParseDateNaive(s) == IF s[Len(s)] = "Z" THEN SubSeq(s, 1, Len(s) - 1) ELSE s

Image == <<"i", "m", "a", "g", "e">>
Webpage == <<"w", "e", "b", "p", "a", "g", "e">>
Video == <<"v", "i", "d", "e", "o">>
YoutubeAsset == <<"y", "o", "u", "t", "u", "b", "e", "_", "a", "s", "s", "e", "t">>
NotAvailable == <<"N", "/", "A">>

BodyKeys ==
    {"asset_id", "name", "uri", "mimetype", "duration", "start_date", "end_date",
     "is_enabled", "is_processing", "nocache"}

\* get(key) without the strip
GetUnstripped(data, key) == data[key]

\* get(key) of prepare_asset: the stripped value
Get(data, key) == Strip(data[key])

\* uuid.uuid4().hex: the n-th id generated
Uuid(n) == <<Digits[n + 1]>>

\* validate_url (lib.utils, modelled from spec.md): a URL has a scheme
ValidateUrl(uri) == Contains(uri, <<":">>)

\* url_fails (lib.utils, modelled from spec.md): the liveness probe of a remote
\* uri; reachable is what the network answers
UrlFails(uri, reachable) == ~StartsWith(uri, <<"/">>) /\ ~reachable

\* download_video_from_youtube (lib.utils, modelled from spec.md): the
\* placeholder uri, name and duration of a resolution that has just started
DownloadVideoFromYoutube(uri, asset_id) ==
    [uri |-> PathJoin(AssetDir, asset_id), name |-> uri, duration |-> 0]

Raise(fs, gen, msg) == [ok |-> FALSE, error |-> msg, fs |-> fs, gen |-> gen]

\* the part of prepare_asset after the uri is settled: duration and dates
PrepareFields(data, fs, gen, asset, uri, probe) ==
    LET mt == asset.mimetype
        withUri == asset @@ [uri |-> uri]
        isVideo == Contains(mt, Video)
        dur == Get(data, "duration")
    IN  IF isVideo /\ dur # NotAvailable /\ ~IsIntStr(dur)
        THEN Raise(fs, gen, "invalid literal for int()")
        ELSE IF isVideo /\ (dur = NotAvailable \/ ParseInt(dur) = 0) /\ probe < 0
        THEN Raise(fs, gen, "could not probe the video")
        ELSE IF ~isVideo /\ ~IsIntStr(dur)
        THEN Raise(fs, gen, "invalid literal for int()")
        ELSE IF Get(data, "start_date") # <<>> /\ ~IsDateStr(Get(data, "start_date"))
        THEN Raise(fs, gen, "unknown string format")
        ELSE IF Get(data, "end_date") # <<>> /\ ~IsDateStr(Get(data, "end_date"))
        THEN Raise(fs, gen, "unknown string format")
        ELSE
            LET withDur ==
                    IF isVideo
                    THEN IF dur = NotAvailable \/ ParseInt(dur) = 0
                         THEN [duration |-> probe] @@ withUri
                         ELSE withUri
                    ELSE [duration |-> ParseInt(dur)] @@ withUri
                sd == Get(data, "start_date")
                ed == Get(data, "end_date")
            IN  [ok |-> TRUE, fs |-> fs, gen |-> gen,
                 asset |-> withDur @@
                     [start_date |-> IF sd # <<>> THEN ParseDateNaive(sd) ELSE <<>>,
                      end_date |-> IF ed # <<>> THEN ParseDateNaive(ed) ELSE <<>>]]

\* prepare_asset with is_processing of a youtube asset left as the body has it
PrepareAssetFlagFromBody(data, fs, gen, probe) ==
    IF Get(data, "name") = <<>> \/ Get(data, "uri") = <<>> \/ Get(data, "mimetype") = <<>>
    THEN Raise(fs, gen, "Not enough information provided.")
    ELSE
        LET uri0 == Get(data, "uri")
            isLocal == StartsWith(uri0, <<"/">>)
        IN  IF isLocal /\ ~IsFile(fs, uri0)
            THEN Raise(fs, gen, "Invalid file path. Failed to add asset.")
            ELSE IF ~isLocal /\ ~ValidateUrl(uri0)
            THEN Raise(fs, gen, "Invalid URL. Failed to add asset.")
            ELSE
                LET fresh == Get(data, "asset_id") = <<>>
                    id == IF fresh THEN Uuid(gen) ELSE Get(data, "asset_id")
                    gen1 == IF fresh THEN gen + 1 ELSE gen
                    moved == fresh /\ isLocal
                    fs1 == IF moved THEN RenameFile(fs, uri0, PathJoin(AssetDir, id)) ELSE fs
                    uri1 == IF moved THEN PathJoin(AssetDir, id) ELSE uri0
                    isYt == Contains(Get(data, "mimetype"), YoutubeAsset)
                    yt == DownloadVideoFromYoutube(uri1, id)
                    asset ==
                        [name |-> IF isYt THEN yt.name ELSE Get(data, "name"),
                         mimetype |-> IF isYt THEN Video ELSE Get(data, "mimetype"),
                         asset_id |-> id,
                         is_enabled |-> Get(data, "is_enabled"),
                         is_processing |-> Get(data, "is_processing"),
                         nocache |-> Get(data, "nocache")]
                        @@ (IF isYt THEN [duration |-> yt.duration] ELSE <<>>)
                IN  PrepareFields(data, fs1, gen1, asset, IF isYt THEN yt.uri ELSE uri1, probe)

\* prepare_asset(request): data is the request body, fs the file system, gen
\* the number of ids generated so far, probe the seconds get_video_duration
\* reads from the media (negative: the probe fails).  The result carries the
\* file system and the id count as the call leaves them, also when it raises.
PrepareAsset(data, fs, gen, probe) ==
    IF Get(data, "name") = <<>> \/ Get(data, "uri") = <<>> \/ Get(data, "mimetype") = <<>>
    THEN Raise(fs, gen, "Not enough information provided.")
    ELSE
        LET uri0 == Get(data, "uri")
            isLocal == StartsWith(uri0, <<"/">>)
        IN  IF isLocal /\ ~IsFile(fs, uri0)
            THEN Raise(fs, gen, "Invalid file path. Failed to add asset.")
            ELSE IF ~isLocal /\ ~ValidateUrl(uri0)
            THEN Raise(fs, gen, "Invalid URL. Failed to add asset.")
            ELSE
                LET fresh == Get(data, "asset_id") = <<>>
                    id == IF fresh THEN Uuid(gen) ELSE Get(data, "asset_id")
                    gen1 == IF fresh THEN gen + 1 ELSE gen
                    moved == fresh /\ isLocal
                    fs1 == IF moved THEN RenameFile(fs, uri0, PathJoin(AssetDir, id)) ELSE fs
                    uri1 == IF moved THEN PathJoin(AssetDir, id) ELSE uri0
                    isYt == Contains(Get(data, "mimetype"), YoutubeAsset)
                    yt == DownloadVideoFromYoutube(uri1, id)
                    asset ==
                        [name |-> IF isYt THEN yt.name ELSE Get(data, "name"),
                         mimetype |-> IF isYt THEN Video ELSE Get(data, "mimetype"),
                         asset_id |-> id,
                         is_enabled |-> Get(data, "is_enabled"),
                         is_processing |-> IF isYt THEN <<"1">> ELSE Get(data, "is_processing"),
                         nocache |-> Get(data, "nocache")]
                        @@ (IF isYt THEN [duration |-> yt.duration] ELSE <<>>)
                IN  PrepareFields(data, fs1, gen1, asset, IF isYt THEN yt.uri ELSE uri1, probe)

(***************************************************************************)
(* lib.assets_helper and lib.db, modelled from spec.md: the catalog is a   *)
(* table keyed by asset_id; every call runs in one transaction.            *)
(***************************************************************************)
Max(S) == CHOOSE m \in S : \A n \in S : n <= m

\* the rank a new asset is stored with: after every asset of the catalog
NextPlayOrder(tbl) ==
    IF DOMAIN tbl = {} THEN 0 ELSE 1 + Max({tbl[i].play_order : i \in DOMAIN tbl})

\* assets_helper.create(conn, asset)
AssetsHelperCreate(tbl, asset) ==
    IF asset.asset_id \in DOMAIN tbl
    THEN [ok |-> FALSE, error |-> "asset_id already exists", tbl |-> tbl]
    ELSE LET rec == asset @@ [play_order |-> NextPlayOrder(tbl)]
         IN  [ok |-> TRUE, rec |-> rec,
              tbl |-> [i \in (DOMAIN tbl) \cup {asset.asset_id} |->
                          IF i = asset.asset_id THEN rec ELSE tbl[i]]]

\* assets_helper.update(conn, asset_id, asset): the fields given replace the
\* stored ones; asset_id and play_order are kept
AssetsHelperUpdate(tbl, id, asset) ==
    IF id \notin DOMAIN tbl
    THEN [ok |-> FALSE, error |-> "NotFound", tbl |-> tbl]
    ELSE LET rec == [asset_id |-> id, play_order |-> tbl[id].play_order]
                        @@ asset @@ tbl[id]
         IN  [ok |-> TRUE, rec |-> rec, tbl |-> [tbl EXCEPT ![id] = rec]]

\* assets_helper.read(conn, asset_id): the record, or NotFound
AssetsHelperRead(tbl, id) ==
    IF id \in DOMAIN tbl THEN [ok |-> TRUE, rec |-> tbl[id]]
    ELSE [ok |-> FALSE, error |-> "NotFound"]

\* assets_helper.delete(conn, asset_id)
AssetsHelperDelete(tbl, id) == [i \in (DOMAIN tbl) \ {id} |-> tbl[i]]

\* assets_helper.read(conn): seq is the catalog sorted by play_order ascending
\* (assets of equal play_order come in either order)
IsListing(seq, tbl) ==
    /\ Len(seq) = Cardinality(DOMAIN tbl)
    /\ {seq[k] : k \in 1..Len(seq)} = DOMAIN tbl
    /\ \A k \in 1..(Len(seq) - 1) : tbl[seq[k]].play_order <= tbl[seq[k + 1]].play_order

\* one step of assets_helper.save_ordering: play_order = index, for an id of
\* the catalog; any other id is ignored
SaveOrderingStep(tbl, index, id) ==
    IF id \in DOMAIN tbl THEN [tbl EXCEPT ![id].play_order = index] ELSE tbl

\* assets_helper.save_ordering(conn, ids), the first n ids applied
RECURSIVE SaveOrderingUpTo(_, _, _)
SaveOrderingUpTo(tbl, ids, n) ==
    IF n = 0 THEN tbl
    ELSE SaveOrderingStep(SaveOrderingUpTo(tbl, ids, n - 1), n - 1, ids[n])

SaveOrdering(tbl, ids) == SaveOrderingUpTo(tbl, ids, Len(ids))

(***************************************************************************)
(* The catalog API handlers.  Each is wrapped by api_response: an          *)
(* exception becomes the response {error: message} with status 500.        *)
(***************************************************************************)
ApiError(op, id, msg) == [op |-> op, id |-> id, status |-> 500, error |-> msg]

\* Assets.post and AssetsNewVersion.post
Create(data, reachable, probe) ==
    LET p == PrepareAsset(data, files, nextId, probe)
        c == AssetsHelperCreate(assets, p.asset)
    IN  /\ txn = NoTxn
        /\ p.gen <= MaxGen
        /\ NextPlayOrder(assets) <= MaxOrder
        /\ files' = p.fs
        /\ nextId' = p.gen
        /\ IF ~p.ok
           THEN assets' = assets /\ last' = ApiError("create", <<>>, p.error)
           ELSE IF UrlFails(p.asset.uri, reachable)
           THEN /\ assets' = assets
                /\ last' = ApiError("create", <<>>, "Could not retrieve file. Check the asset URL.")
           ELSE IF ~c.ok
           THEN assets' = assets /\ last' = ApiError("create", <<>>, c.error)
           ELSE /\ assets' = c.tbl
                /\ last' = [op |-> "create", id |-> c.rec.asset_id, status |-> 201]
        /\ UNCHANGED <<txn, reqlog, inflight, channel, conf>>

\* Asset.put and AssetNewVersion.put: prepare_asset runs before the update
Update(id, data, probe) ==
    LET p == PrepareAsset(data, files, nextId, probe)
        u == AssetsHelperUpdate(assets, id, p.asset)
    IN  /\ txn = NoTxn
        /\ p.gen <= MaxGen
        /\ files' = p.fs
        /\ nextId' = p.gen
        /\ IF ~p.ok
           THEN assets' = assets /\ last' = ApiError("update", id, p.error)
           ELSE IF ~u.ok
           THEN assets' = assets /\ last' = ApiError("update", id, u.error)
           ELSE /\ assets' = u.tbl
                /\ last' = [op |-> "update", id |-> id, status |-> 200]
        /\ UNCHANGED <<txn, reqlog, inflight, channel, conf>>

\* the try block of delete: the file of a uri that starts with the managed
\* directory is removed, and the OSError of a failed removal is swallowed
DeleteMedia(fs, uri) ==
    IF ~StartsWith(uri, AssetDir) THEN [fs |-> fs, media |-> "skipped"]
    ELSE IF IsFile(fs, uri) THEN [fs |-> RemoveFile(fs, uri), media |-> "removed"]
    ELSE [fs |-> fs, media |-> "oserror"]

\* delete with the OSError of remove() left to propagate
DeleteStrict(id) ==
    LET r == AssetsHelperRead(assets, id)
        m == DeleteMedia(files, r.rec.uri)
    IN  /\ txn = NoTxn
        /\ IF ~r.ok
           THEN /\ last' = ApiError("delete", id, r.error)
                /\ UNCHANGED <<files, assets>>
           ELSE IF m.media = "oserror"
           THEN /\ last' = ApiError("delete", id, "No such file or directory")
                /\ UNCHANGED <<files, assets>>
           ELSE /\ files' = m.fs
                /\ assets' = AssetsHelperDelete(assets, id)
                /\ last' = [op |-> "delete", id |-> id, status |-> 204, media |-> m.media]
        /\ UNCHANGED <<nextId, txn, reqlog, inflight, channel, conf>>

\* delete without the read that raises NotFound
DeleteUnchecked(id) ==
    LET m == IF id \in DOMAIN assets THEN DeleteMedia(files, assets[id].uri)
             ELSE [fs |-> files, media |-> "skipped"]
    IN  /\ txn = NoTxn
        /\ files' = m.fs
        /\ assets' = AssetsHelperDelete(assets, id)
        /\ last' = [op |-> "delete", id |-> id, status |-> 204, media |-> m.media]
        /\ UNCHANGED <<nextId, txn, reqlog, inflight, channel, conf>>

\* Asset.delete and AssetNewVersion.delete; the response records what the try
\* block did with the media file
Delete(id) ==
    LET r == AssetsHelperRead(assets, id)
        m == DeleteMedia(files, r.rec.uri)
    IN  /\ txn = NoTxn
        /\ IF ~r.ok
           THEN /\ last' = ApiError("delete", id, r.error)
                /\ UNCHANGED <<files, assets>>
           ELSE /\ files' = m.fs
                /\ assets' = AssetsHelperDelete(assets, id)
                /\ last' = [op |-> "delete", id |-> id, status |-> 204, media |-> m.media]
        /\ UNCHANGED <<nextId, txn, reqlog, inflight, channel, conf>>

\* Asset.get and AssetNewVersion.get
GetAsset(id) ==
    LET r == AssetsHelperRead(assets, id)
    IN  /\ last' = IF r.ok THEN [op |-> "get", id |-> id, status |-> 200]
                   ELSE ApiError("get", id, r.error)
        /\ UNCHANGED <<files, assets, nextId, txn, reqlog, inflight, channel, conf>>

\* Assets.get and AssetsNewVersion.get: the body lists the asset ids in order
List(seq) ==
    /\ IsListing(seq, assets)
    /\ last' = [op |-> "list", status |-> 200, body |-> seq]
    /\ UNCHANGED <<files, assets, nextId, txn, reqlog, inflight, channel, conf>>

\* the ids taken whole, without the split
OrderIdsUnsplit(form) == <<form>>

\* request.form.get('ids', '').split(',')
OrderIds(form) == Split(form, ",")

\* PlaylistOrder.post, as one transaction
Reorder(form) ==
    /\ txn = NoTxn
    /\ assets' = SaveOrdering(assets, OrderIds(form))
    /\ last' = [op |-> "reorder", form |-> form, status |-> 200]
    /\ UNCHANGED <<files, nextId, txn, reqlog, inflight, channel, conf>>

(***************************************************************************)
(* PlaylistOrder.post step by step.  The server runs two worker threads    *)
(* ('threads': 2): while one is inside save_ordering the other handles     *)
(* requests.  db.conn and save_ordering are modelled from spec.md: the     *)
(* handler works in one transaction, whose writes reach the catalog at     *)
(* commit and not at all when it fails; a request that writes waits for    *)
(* the open transaction, a request that reads sees the catalog as          *)
(* committed.                                                              *)
(***************************************************************************)
ReorderBegin(form) ==
    /\ txn = NoTxn
    /\ txn' = [state |-> "open", form |-> form, ids |-> OrderIds(form), done |-> 0,
               work |-> assets]
    /\ UNCHANGED <<files, assets, nextId, reqlog, last, inflight, channel, conf>>

\* a step that writes to the catalog at once, outside any transaction
ReorderStepWriteThrough ==
    /\ txn.state = "open"
    /\ txn.done < Len(txn.ids)
    /\ assets' = SaveOrderingStep(assets, txn.done, txn.ids[txn.done + 1])
    /\ txn' = [txn EXCEPT !.done = txn.done + 1]
    /\ UNCHANGED <<files, nextId, reqlog, last, inflight, channel, conf>>

ReorderStep ==
    /\ txn.state = "open"
    /\ txn.done < Len(txn.ids)
    /\ txn' = [txn EXCEPT !.work = SaveOrderingStep(txn.work, txn.done, txn.ids[txn.done + 1]),
                          !.done = txn.done + 1]
    /\ UNCHANGED <<files, assets, nextId, reqlog, last, inflight, channel, conf>>

\* the transaction fails (a storage error) after txn.done assignments
ReorderFail ==
    /\ txn.state = "open"
    /\ txn' = NoTxn
    /\ last' = [op |-> "reorder", status |-> 500, error |-> "StorageError",
                dirty |-> (txn.work # assets)]
    /\ UNCHANGED <<files, assets, nextId, reqlog, inflight, channel, conf>>

ReorderCommit ==
    /\ txn.state = "open"
    /\ txn.done = Len(txn.ids)
    /\ assets' = txn.work
    /\ txn' = NoTxn
    /\ last' = [op |-> "reorder", form |-> txn.form, status |-> 200]
    /\ UNCHANGED <<files, nextId, reqlog, inflight, channel, conf>>

(***************************************************************************)
(* Backup.post and Recover.post.                                           *)
(***************************************************************************)
TarType == "application/x-tar"

DotTar == <<".", "t", "a", "r">>
DotGz == <<".", "g", "z">>
DotPng == <<".", "p", "n", "g">>

\* mimetypes.guess_type(filename)[0]: an encoding suffix (.gz) is set aside,
\* then the extension decides
GuessType(filename) ==
    LET base == IF EndsWith(filename, DotGz)
                THEN SubSeq(filename, 1, Len(filename) - Len(DotGz))
                ELSE filename
    IN  IF EndsWith(base, DotTar) THEN TarType
        ELSE IF EndsWith(base, DotPng) THEN "image/png"
        ELSE "None"

\* the directory Recover.post saves the upload in
StaticDir == <<"s", "t", "a", "t", "i", "c">>

\* the files of the managed media directory
MediaOf(fs) == [q \in {r \in DOMAIN fs : StartsWith(r, AssetDir \o <<"/">>)} |-> fs[q]]

\* the content of a backup archive: the catalog and the media directory
Archive(tbl, fs) == <<"tar", tbl, MediaOf(fs)>>

IsArchive(content) == Len(content) = 3 /\ content[1] = "tar"

\* the name backup_helper.create_backup gives the archive
BackupName == <<"b", ".", "t", "a", "r", ".", "g", "z">>

\* backup_helper.create_backup (modelled from spec.md): one archive of the
\* catalog and the managed media directory, kept in the static directory
CreateBackup(tbl, fs) == WriteFile(fs, PathJoin(StaticDir, BackupName), Archive(tbl, fs))

\* Backup.post
Backup ==
    /\ txn = NoTxn
    /\ files' = CreateBackup(assets, files)
    /\ last' = [op |-> "backup", status |-> 201, body |-> BackupName]
    /\ UNCHANGED <<assets, nextId, txn, reqlog, inflight, channel, conf>>

\* backup_helper.recover(location) (modelled from spec.md): the catalog and
\* the managed media directory are replaced by those of the archive; a file
\* that is no archive makes it raise
BackupRecover(tbl, fs, location) ==
    IF ~IsArchive(fs[location])
    THEN [ok |-> FALSE, error |-> "not a backup archive", tbl |-> tbl, fs |-> fs]
    ELSE LET media == fs[location][3]
             kept == {q \in DOMAIN fs : ~StartsWith(q, AssetDir \o <<"/">>)}
         IN  [ok |-> TRUE, tbl |-> fs[location][2],
              fs |-> [q \in kept \cup DOMAIN media |->
                         IF q \in DOMAIN media THEN media[q] ELSE fs[q]]]

\* recover with the upload saved before its name is checked
RecoverSaveFirst(filename, content) ==
    LET location == PathJoin(StaticDir, filename)
        saved == WriteFile(files, location, content)
        r == BackupRecover(assets, saved, location)
    IN  /\ txn = NoTxn
        /\ files' = IF GuessType(filename) # TarType THEN saved ELSE r.fs
        /\ assets' = IF GuessType(filename) # TarType THEN assets ELSE r.tbl
        /\ last' = IF GuessType(filename) # TarType
                   THEN ApiError("recover", filename, "Incorrect file extension.")
                   ELSE IF ~r.ok THEN ApiError("recover", filename, r.error)
                   ELSE [op |-> "recover", id |-> filename, status |-> 200]
        /\ UNCHANGED <<nextId, txn, reqlog, inflight, channel, conf>>

\* Recover.post: filename and content are those of the uploaded file
Recover(filename, content) ==
    LET location == PathJoin(StaticDir, filename)
        saved == WriteFile(files, location, content)
        r == BackupRecover(assets, saved, location)
    IN  /\ txn = NoTxn
        /\ IF GuessType(filename) # TarType
           THEN /\ last' = ApiError("recover", filename, "Incorrect file extension.")
                /\ UNCHANGED <<files, assets>>
           ELSE /\ files' = r.fs
                /\ assets' = r.tbl
                /\ last' = IF r.ok THEN [op |-> "recover", id |-> filename, status |-> 200]
                           ELSE ApiError("recover", filename, r.error)
        /\ UNCHANGED <<nextId, txn, reqlog, inflight, channel, conf>>

(***************************************************************************)
(* The request boundary.  api_response turns an exception of the view it   *)
(* wraps into the response {error: message}; which views it wraps is read  *)
(* from method_decorators and the decorators of the methods.               *)
(***************************************************************************)
\* the views of the API
Views ==
    {"list", "get", "create", "update", "delete", "upload", "reorder", "backup",
     "recover", "control"}

\* Assets and AssetsNewVersion have method_decorators = [auth_basic], and only
\* their post carries @api_response; every other resource has api_response in
\* its method_decorators
ApiResponseWraps(view) == view # "list"

\* the response to a request whose view raises: api_error(message) where
\* api_response wraps the view, the framework's answer to an unhandled
\* exception where it does not
RequestBoundary(view, id, msg) ==
    IF ApiResponseWraps(view) THEN ApiError(view, id, msg)
    ELSE [op |-> view, id |-> id, status |-> 500, message |-> "Internal Server Error"]

\* the catalog storage fails (StorageError) while the view is handled
StorageFails(view, id) ==
    /\ txn = NoTxn
    /\ last' = RequestBoundary(view, id, "StorageError")
    /\ UNCHANGED <<files, assets, nextId, txn, reqlog, inflight, channel, conf>>

(***************************************************************************)
(* AssetsControl.get: playback control.  ZmqPublisher (settings) is not    *)
(* part of src/; send_to_viewer is modelled from spec.md: one message is   *)
(* put on the channel, it reaches the renderer if the renderer listens,   *)
(* nothing is acknowledged.                                                *)
(***************************************************************************)
\* ZmqPublisher.send_to_viewer(command); listening: the renderer is there
SendToViewer(ch, command, listening) ==
    Append(ch, [command |-> command, delivered |-> listening])

\* a control that sends again when the renderer did not get the message
ControlRetrying(command, listening) ==
    /\ Len(channel) < MaxSends
    /\ channel' = IF listening THEN SendToViewer(channel, command, TRUE)
                  ELSE SendToViewer(SendToViewer(channel, command, FALSE), command, FALSE)
    /\ last' = [op |-> "control", id |-> command, status |-> 200,
                body |-> "Asset switched"]
    /\ UNCHANGED <<files, assets, nextId, txn, reqlog, inflight, conf>>

\* AssetsControl.get(command)
Control(command, listening) ==
    /\ Len(channel) < MaxSends
    /\ channel' = SendToViewer(channel, command, listening)
    /\ last' = [op |-> "control", id |-> command, status |-> 200,
                body |-> "Asset switched"]
    /\ UNCHANGED <<files, assets, nextId, txn, reqlog, inflight, conf>>

\* the resolution of a youtube asset completes in the background (lib.utils,
\* modelled from spec.md): the video is in place, the record gets its
\* duration and is_processing is cleared
ResolutionCompletes(id) ==
    /\ txn = NoTxn
    /\ id \in DOMAIN assets
    /\ assets[id].is_processing = <<"1">>
    /\ files' = WriteFile(files, assets[id].uri, <<"v">>)
    /\ assets' = [assets EXCEPT ![id].is_processing = <<"0">>, ![id].duration = 5]
    /\ UNCHANGED <<nextId, txn, reqlog, last, inflight, channel, conf>>

(***************************************************************************)
(* settings_page.  The settings module is not part of src/: settings is    *)
(* modelled as the dictionary the handler reads and assigns, save() writes *)
(* it to disk and load() reads it back.  CONFIGURABLE_SETTINGS holds one   *)
(* viewer setting with a boolean default, the user and the password; the   *)
(* order in which its items are visited is the dictionary's.               *)
(***************************************************************************)
SettingFields == {"show_splash", "user", "password"}

\* the value assigned to a field, as the loop body computes it from the form
\* and the settings in memory
SettingValue(mem, form, field) ==
    IF field = "show_splash" THEN form.show_splash = "on"
    ELSE IF field = "password" /\ form.password = "" /\ mem.user # "" THEN mem.password
    ELSE form[field]

\* the loop over the first n fields of order: the settings in memory after
\* it, and whether it raised ValueError
RECURSIVE AssignFields(_, _, _, _)
AssignFields(mem, form, order, n) ==
    IF n = 0 THEN [ok |-> TRUE, mem |-> mem]
    ELSE LET before == AssignFields(mem, form, order, n - 1)
             field == order[n]
         IN  IF ~before.ok THEN before
             ELSE IF field = "password" /\ form.password # form.password2
             THEN [ok |-> FALSE, mem |-> before.mem]
             ELSE [ok |-> TRUE,
                   mem |-> [before.mem EXCEPT ![field] = SettingValue(before.mem, form, field)]]

Flash(class) == [op |-> "settings", status |-> 200, flash |-> class]

\* settings_page on POST; saves: settings.save() does not raise IOError
SettingsPost(form, order, saves, listening) ==
    LET a == AssignFields(conf.mem, form, order, Len(order))
    IN  /\ Len(channel) < MaxSends
        /\ IF ~a.ok
           THEN /\ conf' = [conf EXCEPT !.mem = a.mem]
                /\ channel' = channel
                /\ last' = Flash("error")
           ELSE IF ~saves
           THEN /\ conf' = [conf EXCEPT !.mem = a.mem]
                /\ channel' = channel
                /\ last' = Flash("error")
           ELSE /\ conf' = [mem |-> a.mem, disk |-> a.mem]
                /\ channel' = SendToViewer(channel, <<"r", "e", "l", "o", "a", "d">>, listening)
                /\ last' = Flash("success")
        /\ UNCHANGED <<files, assets, nextId, txn, reqlog, inflight>>

\* settings_page on GET: settings.load()
SettingsGet ==
    /\ conf' = [conf EXCEPT !.mem = conf.disk]
    /\ last' = [op |-> "settings", status |-> 200, flash |-> "none"]
    /\ UNCHANGED <<files, assets, nextId, txn, reqlog, inflight, channel>>

(***************************************************************************)
(* Inputs.                                                                 *)
(***************************************************************************)
Bytes == {"x", "y"}

RECURSIVE SeqsUpTo(_, _)
SeqsUpTo(S, n) ==
    IF n = 0 THEN {<<>>}
    ELSE SeqsUpTo(S, n - 1) \cup
         {Append(s, e) : s \in {t \in SeqsUpTo(S, n - 1) : Len(t) = n - 1}, e \in S}

Payloads == SeqsUpTo(Bytes, MaxChunk) \ {<<>>}

Filenames == {<<"f">>, <<"g">>}

Ranges == {NoRange} \cup 0..MaxChunk

\* files of the host that exist before the server starts
ExtFile == <<"/", "u", "/", "f">>
SibFile == <<"/", "m", "x", "/", "f">>

Init ==
    /\ files = [p \in {ExtFile, SibFile} |-> <<"x">>]
    /\ assets = [i \in {} |-> 0]
    /\ nextId = 0
    /\ txn = NoTxn
    /\ reqlog = <<>>
    /\ last = [op |-> "start"]
    /\ inflight = [t \in Threads |-> Idle]
    /\ channel = <<>>
    /\ conf = [mem |-> Defaults, disk |-> Defaults]

\* a request body; the optional fields are left out
Body(id, name, uri, mimetype, duration) ==
    [asset_id |-> id, name |-> name, uri |-> uri, mimetype |-> mimetype,
     duration |-> duration, start_date |-> <<>>, end_date |-> <<>>,
     is_enabled |-> <<"1">>, is_processing |-> <<"0">>, nocache |-> <<"0">>]

Url == <<"h", ":", "e">>

\* an asset id chosen by the client
ClientId == <<"a">>

\* an asset id that is in no catalog
UnknownId == <<"z">>

\* the bodies of create requests: a new asset from a remote page or from a
\* file of the host, with a duration that parses or not; an asset under a
\* client-chosen id, from a file next to the managed directory or from a uri
\* the catalog already stores; a blank name
CreateBodies ==
    {Body(<<>>, <<"n">>, uri, IF uri = Url THEN Webpage ELSE Image, dur) :
        uri \in {Url, ExtFile}, dur \in {<<"1", "0">>, <<"a">>}}
    \cup {Body(ClientId, <<"n">>, uri, Image, <<"1", "0">>) :
        uri \in {SibFile} \cup {assets[i].uri : i \in DOMAIN assets}}
    \cup {Body(<<>>, <<" ">>, Url, Webpage, <<"1", "0">>)}

\* the bodies of update requests for id: the record edited in place (with or
\* without its asset_id), or pointed at another uri
UpdateBodies(id) ==
    {Body(i, <<"n">>, uri, IF uri = Url THEN Webpage ELSE Image, <<"1", "0">>) :
        i \in {id, <<>>},
        uri \in {Url, ExtFile} \cup (IF id \in DOMAIN assets THEN {assets[id].uri} ELSE {})}

\* the ids a client can address: those of the catalog, those it has seen
\* deleted, and its own
TargetIds == DOMAIN assets \cup {ClientId} \cup {Uuid(n) : n \in 0..(nextId - 1)}

\* ",".join(ids)
RECURSIVE Join(_)
Join(ids) ==
    IF ids = <<>> THEN <<>>
    ELSE IF Len(ids) = 1 THEN ids[1]
    ELSE ids[1] \o <<",">> \o Join(Tail(ids))

Letters == <<"a", "b", "c", "d", "e", "f">>

\* the asset ids the clients of the playlist choose
OrderClients == {<<Letters[k]>> : k \in 1..MaxClients}

\* the bodies of the playlist's create and update requests: a remote page
OrderBody(id) == Body(id, <<"n">>, Url, Webpage, <<"1", "0">>)

\* the sequences over S without repetition
Arrangements(S) ==
    {l \in SeqsUpTo(S, Cardinality(S)) : \A i, j \in 1..Len(l) : i # j => l[i] # l[j]}

Perms(S) == {l \in Arrangements(S) : Len(l) = Cardinality(S)}

\* the ids forms a client can post: ids of the catalog in any order, all of
\* them or some (or none); with an id that is in no catalog first; with an id
\* given twice
OrderForms ==
    {Join(l) : l \in Arrangements(DOMAIN assets)}
    \cup {Join(<<UnknownId>> \o l) : l \in Perms(DOMAIN assets)}
    \cup {Join(l \o <<l[1]>>) : l \in Perms(DOMAIN assets) \ {<<>>}}

(***************************************************************************)
(* The catalog API.                                                        *)
(***************************************************************************)
Next ==
    \/ \E data \in CreateBodies, reachable \in BOOLEAN : Create(data, reachable, 5)
    \/ \E id \in TargetIds : \E data \in UpdateBodies(id) : Update(id, data, 5)
    \/ \E id \in TargetIds : Delete(id)
    \/ \E id \in TargetIds : GetAsset(id)

Spec == Init /\ [][Next]_vars

(***************************************************************************)
(* Claims about the catalog and its media files.                           *)
(***************************************************************************)
\* p names a file inside the managed media directory
InManagedDir(p) == StartsWith(p, AssetDir \o <<"/">>)

\* the step is a delete request that found its asset
DeletesAsset == last'.op = "delete" /\ last'.status = 204 /\ last'.id \in DOMAIN assets

\* C3: deleting an asset whose uri is not inside the managed media directory
\* removes no file; deleting one whose uri is inside it removes that file and
\* no other.
C3_DeleteRemovesOnlyOwnedFile ==
    [][ DeletesAsset =>
            LET uri == assets[last'.id].uri
            IN  IF InManagedDir(uri)
                THEN files' = [q \in (DOMAIN files) \ {uri} |-> files[q]]
                ELSE files' = files ]_vars

\* the finalized files of the managed media directory
ManagedFiles == {p \in DOMAIN files : InManagedDir(p) /\ ~EndsWith(p, TmpSuffix)}

Owners(p) == {i \in DOMAIN assets : assets[i].uri = p}

\* C4: every finalized file of the managed media directory is the uri of
\* exactly one asset record.
C4_ExactlyOneOwner == \A p \in ManagedFiles : Cardinality(Owners(p)) = 1

\* C8: a get or delete of an asset_id that is not in the catalog answers
\* NotFound and changes neither the catalog nor any file.
C8_MissingIdNotFound ==
    [][ (last'.op \in {"get", "delete"} /\ last'.id \notin DOMAIN assets)
        => /\ last'.status = 500
           /\ last'.error = "NotFound"
           /\ UNCHANGED <<files, assets, nextId>> ]_vars

\* a delete of an id that was generated before and is no longer in the
\* catalog has answered NotFound
C8_Witness ==
    /\ last.op = "delete"
    /\ last.status = 500
    /\ last.error = "NotFound"
    /\ nextId > 0
    /\ last.id = Uuid(0)

\* C9: deleting an asset of the catalog whose managed media file is absent
\* answers 204 and removes the record.
C9_DeleteWithoutFile ==
    [][ ( /\ last'.op = "delete"
          /\ last'.id \in DOMAIN assets
          /\ InManagedDir(assets[last'.id].uri)
          /\ ~IsFile(files, assets[last'.id].uri) )
        => /\ last'.status = 204
           /\ last'.id \notin DOMAIN assets'
           /\ files' = files ]_vars

\* a delete has succeeded although remove() raised OSError
C9_Witness == last.op = "delete" /\ last.status = 204 /\ last.media = "oserror"

\* the step is an update request that was applied to the asset it addresses
UpdatesAsset == last'.op = "update" /\ last'.status = 200 /\ last' # last

\* C11: an update addressed to asset_id X leaves the record under X with
\* asset_id X, generates no new id and moves no media file.
C11_AssetIdImmutable ==
    [][ UpdatesAsset =>
            /\ last'.id \in DOMAIN assets'
            /\ assets'[last'.id].asset_id = last'.id
            /\ nextId' = nextId
            /\ files' = files ]_vars

\* the step is a create request that stored a new record
CreatesAsset == last'.op = "create" /\ last'.status = 201 /\ last' # last

\* C12: every record is stored under its own asset_id, a create never takes
\* the asset_id of a record of the catalog, and it never takes an asset_id
\* that has been deleted: not the one the request before it deleted, and none
\* of the ids generated earlier.
C12_AssetIdNeverReused ==
    [][ /\ \A i \in DOMAIN assets' : assets'[i].asset_id = i
        /\ CreatesAsset =>
              /\ last'.id \notin DOMAIN assets
              /\ last'.id \notin {Uuid(n) : n \in 0..(nextId - 1)}
              /\ ~(last.op = "delete" /\ last.status = 204 /\ last.id = last'.id) ]_vars

\* the step is a create request that was rejected
RejectsCreate == last'.op = "create" /\ last'.status = 500 /\ last' # last

\* C21: a create request that is rejected leaves the catalog and every file
\* as they were.
C21_RejectedCreateChangesNothing ==
    [][ RejectsCreate => (assets' = assets /\ files' = files) ]_vars

(***************************************************************************)
(* The playlist: assets under client-chosen ids, their order and listing.  *)
(***************************************************************************)
NextOrder ==
    \/ \E id \in OrderClients : Create(OrderBody(id), TRUE, 5)
    \/ \E id \in DOMAIN assets : Update(id, OrderBody(id), 5)
    \/ \E id \in DOMAIN assets : Delete(id)
    \/ \E seq \in Perms(DOMAIN assets) : List(seq)
    \/ \E form \in OrderForms : Reorder(form)

SpecOrder == Init /\ [][NextOrder]_vars

\* C5: no two assets of the catalog have the same play_order.
C5_UniquePlayOrder ==
    \A i, j \in DOMAIN assets : i # j => assets[i].play_order # assets[j].play_order

\* C6: after a reorder whose ids are exactly the assets of the catalog, each
\* asset's play_order is its index in the ids and the listing of the catalog
\* is the ids, in their order.
C6_ReorderThenList ==
    \A l \in Perms(DOMAIN assets) :
        (last.op = "reorder" /\ last.status = 200 /\ last.form = Join(l))
        => /\ \A k \in 1..Len(l) : assets[l[k]].play_order = k - 1
           /\ \A seq \in Perms(DOMAIN assets) : IsListing(seq, assets) => seq = l

\* three assets have been reordered against the order of their creation
C6_Witness ==
    /\ last.op = "reorder"
    /\ last.status = 200
    /\ Cardinality(DOMAIN assets) = 3
    /\ \E l \in Perms(DOMAIN assets) :
          /\ last.form = Join(l)
          /\ IsListing(l, assets)
          /\ l[1] = <<"c">> /\ l[3] = <<"a">>

(***************************************************************************)
(* The playlist with a reorder in flight on one of the two threads.        *)
(***************************************************************************)
ConcClients == {<<Letters[k]>> : k \in 1..MaxConcClients}

\* the ids forms posted while the other thread is busy: ids of the catalog
\* in any order, all of them or some (or none)
ConcForms == {Join(l) : l \in Arrangements(DOMAIN assets)}

NextConc ==
    \/ \E id \in ConcClients : Create(OrderBody(id), TRUE, 5)
    \/ \E id \in DOMAIN assets : Update(id, OrderBody(id), 5)
    \/ \E id \in DOMAIN assets : Delete(id)
    \/ \E seq \in Perms(DOMAIN assets) : List(seq)
    \/ \E form \in ConcForms : ReorderBegin(form)
    \/ ReorderStep
    \/ ReorderFail
    \/ ReorderCommit

SpecConc == Init /\ [][NextConc]_vars

RecoverNames ==
    {BackupName,
     <<"b", ".", "t", "a", "r">>,
     <<"b", ".", "p", "n", "g">>,
     <<"b", ".", "g", "z">>,
     <<"t", "a", "r">>}

\* what a client can upload: an archive it got from a backup, or other bytes
RecoverContents ==
    {<<"x">>} \cup {files[q] : q \in {r \in DOMAIN files : IsArchive(files[r])}}

RecoverBodies ==
    {Body(<<>>, <<"n">>, uri, IF uri = Url THEN Webpage ELSE Image, <<"1", "0">>) :
        uri \in {Url, ExtFile}}

NextRecover ==
    \/ \E data \in RecoverBodies : Create(data, TRUE, 5)
    \/ \E id \in DOMAIN assets : Delete(id)
    \/ Backup
    \/ \E fn \in RecoverNames, content \in RecoverContents : Recover(fn, content)

SpecRecover == Init /\ [][NextRecover]_vars

\* C23: a create without asset_id whose uri is a local path, when it
\* succeeds, stores the uri <managed dir>/<asset_id>; the file is there with
\* its content and is no longer at its original path.
C23_LocalFileMoved ==
    [][ \A data \in RecoverBodies :
            ( /\ Get(data, "asset_id") = <<>>
              /\ StartsWith(Get(data, "uri"), <<"/">>)
              /\ Create(data, TRUE, 5)
              /\ last'.status = 201 )
            => LET dst == PathJoin(AssetDir, last'.id)
               IN  /\ last'.id = Uuid(nextId)
                   /\ assets'[last'.id].uri = dst
                   /\ IsFile(files', dst)
                   /\ files'[dst] = files[Get(data, "uri")]
                   /\ ~IsFile(files', Get(data, "uri")) ]_vars

\* the host file has been taken into the managed directory by a create
C23_Witness ==
    /\ last.op = "create"
    /\ last.status = 201
    /\ last.id \in DOMAIN assets
    /\ assets[last.id].uri = PathJoin(AssetDir, last.id)
    /\ IsFile(files, PathJoin(AssetDir, last.id))
    /\ ~IsFile(files, ExtFile)

\* C10: a recover request whose uploaded file is not declared a tar archive
\* (the type its filename declares is not application/x-tar) answers an error
\* and leaves the catalog, the media directory and every other file as they
\* were.
C10_RecoverRejectsNonTar ==
    [][ (last'.op = "recover" /\ last' # last /\ GuessType(last'.id) # TarType)
        => /\ last'.status = 500
           /\ UNCHANGED <<assets, files, nextId>> ]_vars

\* an upload named b.png, holding a real archive, has been rejected by a
\* server whose catalog is not empty
C10_Witness ==
    /\ last.op = "recover"
    /\ last.status = 500
    /\ last.id = <<"b", ".", "p", "n", "g">>
    /\ last.error = "Incorrect file extension."
    /\ DOMAIN assets # {}
    /\ PathJoin(StaticDir, BackupName) \in DOMAIN files

(***************************************************************************)
(* Validation of the fields of a request body.                             *)
(***************************************************************************)
\* a body with a schedule
Scheduled(id, sd, ed) ==
    [Body(id, <<"n">>, Url, Webpage, <<"1", "0">>) EXCEPT !.start_date = sd, !.end_date = ed]

\* what a client writes for a date: nothing, a timestamp, a timestamp with a
\* zone, or text that is no date
DateInputs == {<<>>, <<"1">>, <<"2", "Z">>, <<"x">>}

\* what a client writes for the duration of a video
VideoDurations == {<<>>, NotAvailable, <<"0">>, <<"-", "1">>, <<"7">>, <<"a">>}

\* the bodies of requests for id: required fields blank or missing, a
\* schedule, a video with its duration
FieldBodies(id) ==
    {Body(id, name, uri, mt, <<"1", "0">>) :
        name \in {<<"n">>, <<" ">>}, uri \in {Url, ExtFile, <<>>}, mt \in {Image, <<>>}}
    \cup {Scheduled(id, sd, ed) : sd \in DateInputs, ed \in DateInputs}
    \cup {Body(id, <<"n">>, Url, Video, dur) : dur \in VideoDurations}

\* what get_video_duration reads from the media: seconds, or a failure
Probes == {5, -1}

\* bodies without asset_id in which a required field is blank or missing
BlankBodies ==
    {b \in FieldBodies(<<>>) : \E k \in {"name", "uri", "mimetype"} : Strip(b[k]) = <<>>}

NextFields ==
    \/ \E data \in FieldBodies(ClientId) \cup BlankBodies, probe \in Probes :
          Create(data, TRUE, probe)
    \/ \E id \in DOMAIN assets \cup {ClientId} :
          \E data \in FieldBodies(id) \cup BlankBodies, probe \in Probes :
              Update(id, data, probe)
    \/ \E id \in DOMAIN assets : Delete(id)

SpecFields == Init /\ [][NextFields]_vars

\* the record has a start_date, an end_date
HasStart(rec) == rec.start_date # <<>>
HasEnd(rec) == rec.end_date # <<>>

\* C13: every stored asset has start_date and end_date both set or both
\* empty.
C13_DatesBothOrNeither ==
    \A i \in DOMAIN assets : HasStart(assets[i]) <=> HasEnd(assets[i])

\* name, uri or mimetype of the body is missing or blank
LacksRequired(data) == \E k \in {"name", "uri", "mimetype"} : Strip(data[k]) = <<>>

\* the step handles a create or an update request with this body
HandlesBody(data) ==
    \E probe \in Probes :
        \/ Create(data, TRUE, probe)
        \/ \E id \in DOMAIN assets \cup {ClientId} : Update(id, data, probe)

\* C14: a create or update request whose name, uri or mimetype is missing or
\* blank is answered an error and changes neither the catalog nor any file.
C14_RequiredFieldsRejected ==
    [][ \A data \in FieldBodies(ClientId) \cup BlankBodies :
            (LacksRequired(data) /\ HandlesBody(data))
            => /\ last'.status = 500
               /\ assets' = assets
               /\ files' = files
               /\ nextId' = nextId ]_vars

\* an update of a stored asset with a blank field has been rejected
C14_Witness ==
    /\ last.op = "update"
    /\ last.status = 500
    /\ last.error = "Not enough information provided."
    /\ last.id \in DOMAIN assets

\* the validation of create rejects the body: prepare_asset raises, or the
\* uri cannot be retrieved (reachable is what the network answers)
CreateRejects(data, reachable, probe) ==
    LET p == PrepareAsset(data, files, nextId, probe)
    IN  ~p.ok \/ UrlFails(p.asset.uri, reachable)

\* C15: an update with a body that the validation of create rejects is
\* answered an error and leaves the catalog as it was.
C15_UpdateValidatesAsCreate ==
    [][ \A id \in DOMAIN assets : \A data \in FieldBodies(id) \cup BlankBodies :
          \A probe \in Probes, reachable \in BOOLEAN :
            (CreateRejects(data, reachable, probe) /\ Update(id, data, probe))
            => /\ last'.status = 500
               /\ assets' = assets ]_vars

\* the bodies of a video whose duration is left out, the sentinel, or a number
VideoBodies ==
    {Body(ClientId, <<"n">>, Url, Video, dur) : dur \in VideoDurations \ {<<"a">>}}

\* the duration the record of a video is to carry: probed when the body
\* gives none, the sentinel, zero or a negative number; the body's otherwise
VideoDuration(data, probe) ==
    LET dur == Strip(data.duration)
    IN  IF dur = <<>> \/ dur = NotAvailable THEN probe
        ELSE IF ParseInt(dur) <= 0 THEN probe
        ELSE ParseInt(dur)

\* C20: the create of a video whose media can be probed stores a record with
\* an integer duration: the probed one when the body's duration is left out,
\* 'N/A', zero or negative, the body's otherwise.
C20_VideoDuration ==
    [][ \A data \in VideoBodies : \A probe \in Probes :
            (probe >= 0 /\ ClientId \notin DOMAIN assets /\ Create(data, TRUE, probe))
            => /\ last'.status = 201
               /\ "duration" \in DOMAIN assets'[ClientId]
               /\ assets'[ClientId].duration = VideoDuration(data, probe) ]_vars

(***************************************************************************)
(* Uploads of one filename on the two worker threads.                      *)
(***************************************************************************)
\* the uploads the two clients send: whole files and first chunks
ConcPayloads == (SeqsUpTo({"x"}, MaxChunk) \ {<<>>}) \cup {<<"y">>}

ConcRanges == {NoRange, 0}

NextUploadConc ==
    \/ \E t \in Threads, rg \in ConcRanges, pl \in ConcPayloads :
          UploadOpen(t, <<"f">>, rg, pl)
    \/ \E t \in Threads : UploadWrite(t)
    \/ \E t \in Threads : UploadReturn(t)

SpecUploadConc == Init /\ [][NextUploadConc]_vars

\* C16: when two uploads of whole files for the same filename have both been
\* answered, the temporary file holds the content of one of them.
C16_UploadsDoNotInterleave ==
    ( /\ \A t \in Threads : inflight[t] = Idle
      /\ Len(reqlog) = 2
      /\ reqlog[1].filename = reqlog[2].filename
      /\ reqlog[1].range = NoRange
      /\ reqlog[2].range = NoRange )
    => files[UploadPath(reqlog[1].filename)] \in {reqlog[1].payload, reqlog[2].payload}

(***************************************************************************)
(* The API with a storage that can fail.                                   *)
(***************************************************************************)
NextBoundary ==
    \/ \E id \in ConcClients : Create(OrderBody(id), TRUE, 5)
    \/ \E id \in DOMAIN assets : Update(id, OrderBody(id), 5)
    \/ \E id \in ConcClients : Delete(id)
    \/ \E id \in ConcClients : GetAsset(id)
    \/ \E seq \in Perms(DOMAIN assets) : List(seq)
    \/ \E view \in Views :
          \E id \in IF view \in {"get", "update", "delete"} THEN ConcClients ELSE {<<>>} :
              StorageFails(view, id)

SpecBoundary == Init /\ [][NextBoundary]_vars

\* C17: every request that fails is answered the payload {error: message}
\* with status 500.
C17_FailuresAreStructured ==
    (last.op # "start" /\ last.status >= 400)
    => (last.status = 500 /\ "error" \in DOMAIN last)

(***************************************************************************)
(* Playback control.                                                       *)
(***************************************************************************)
CmdNext == <<"n", "e", "x", "t">>
CmdPrevious == <<"p", "r", "e", "v", "i", "o", "u", "s">>
CmdReload == <<"r", "e", "l", "o", "a", "d">>
CmdAssetPrefix == <<"a", "s", "s", "e", "t", "&">>

\* the command strings clients put in the path: commands of the viewer, and
\* other text
ControlInputs == {CmdNext, CmdPrevious, CmdAssetPrefix \o ClientId, <<"x">>}

NextControl ==
    \E command \in ControlInputs, listening \in BOOLEAN : Control(command, listening)

SpecControl == Init /\ [][NextControl]_vars

\* the enumerated commands: next, previous, asset&<id>, reload
IsCommand(c) ==
    c \in {CmdNext, CmdPrevious, CmdReload} \/
    (StartsWith(c, CmdAssetPrefix) /\ Len(c) > Len(CmdAssetPrefix))

\* C18: every message on the channel is one of the enumerated commands.
C18_OnlyEnumeratedCommands ==
    \A k \in 1..Len(channel) : IsCommand(channel[k].command)

\* C19: the channel changes only by a control request, which puts its
\* command on it once, delivered or lost, and is answered success with the
\* same body either way; what is on the channel is never sent again.
C19_FireAndForget ==
    [][ channel' # channel =>
            /\ last'.op = "control"
            /\ last'.status = 200
            /\ last'.body = "Asset switched"
            /\ DOMAIN last' = {"op", "id", "status", "body"}
            /\ \E d \in BOOLEAN :
                  channel' = Append(channel, [command |-> last'.id, delivered |-> d]) ]_vars

\* a command has been lost and the next request was answered all the same
C19_Witness ==
    /\ Len(channel) >= 2
    /\ ~channel[1].delivered
    /\ channel[2].command # channel[1].command
    /\ last.op = "control"
    /\ last.status = 200

(***************************************************************************)
(* Assets that reference a video of a remote service.                      *)
(***************************************************************************)
\* what a client writes for is_processing
FlagInputs == {<<>>, <<"0">>, <<"1">>}

\* the bodies of requests for a remote video
YoutubeBodies ==
    {[Body(id, <<"n">>, Url, YoutubeAsset, dur) EXCEPT !.is_processing = flag] :
        id \in {ClientId, <<"b">>}, dur \in {<<"1", "0">>, NotAvailable}, flag \in FlagInputs}

NextYoutube ==
    \/ \E data \in YoutubeBodies, probe \in Probes : Create(data, TRUE, probe)
    \/ \E id \in DOMAIN assets : ResolutionCompletes(id)
    \/ \E id \in DOMAIN assets : Delete(id)

SpecYoutube == Init /\ [][NextYoutube]_vars

\* the record is being resolved
IsProcessing(rec) == rec.is_processing = <<"1">>

\* C22: the create of a remote video that succeeds stores the record as a
\* video with is_processing set, whatever is_processing the body carries, and
\* no create clears the is_processing of a record.
C22_YoutubeIsProcessing ==
    [][ /\ \A data \in YoutubeBodies : \A probe \in Probes :
              (Create(data, TRUE, probe) /\ last'.status = 201)
              => /\ IsProcessing(assets'[last'.id])
                 /\ assets'[last'.id].mimetype = Video
        /\ \A i \in DOMAIN assets \cap DOMAIN assets' :
              (IsProcessing(assets[i]) /\ ~IsProcessing(assets'[i]))
              => (last' = last \/ last'.op # "create") ]_vars

\* a remote video has been created with is_processing '0' in the body, is
\* stored as being resolved, and another one has been resolved since
C22_Witness ==
    /\ last.op = "create"
    /\ last.status = 201
    /\ last.id = ClientId
    /\ IsProcessing(assets[ClientId])
    /\ \E i \in DOMAIN assets : i # ClientId /\ ~IsProcessing(assets[i]) /\ assets[i].mimetype = Video

(***************************************************************************)
(* The settings page.                                                      *)
(***************************************************************************)
\* the forms a client posts
SettingsForms ==
    [show_splash : {"on", ""}, user : {"", "u"}, password : {"", "p"},
     password2 : {"", "p"}]

\* the orders in which a dictionary can hold the fields
FieldOrders == Perms(SettingFields)

NextSettings ==
    \/ \E form \in SettingsForms, order \in FieldOrders, saves \in BOOLEAN,
          listening \in BOOLEAN : SettingsPost(form, order, saves, listening)
    \/ SettingsGet

SpecSettings == Init /\ [][NextSettings]_vars

\* the step is a settings POST
PostsSettings == last'.op = "settings" /\ last'.flash # "none"

\* C24: a settings POST that saves sends one reload and the settings on disk
\* are those in memory; a POST that fails sends nothing, saves nothing and
\* leaves the settings in memory as they were.
C24_ReloadIffSaved ==
    [][ (PostsSettings /\ (conf' # conf \/ channel' # channel \/ last' # last)) =>
            IF last'.flash = "success"
            THEN /\ conf'.disk = conf'.mem
                 /\ Len(channel') = Len(channel) + 1
                 /\ channel'[Len(channel')].command = <<"r", "e", "l", "o", "a", "d">>
            ELSE /\ channel' = channel
                 /\ conf'.disk = conf.disk
                 /\ conf'.mem = conf.mem ]_vars

(***************************************************************************)
(* The upload endpoint alone.                                              *)
(***************************************************************************)
NextUpload ==
    \E fn \in Filenames, rg \in Ranges, pl \in Payloads : Upload(fn, rg, pl)

SpecUpload == Init /\ [][NextUpload]_vars

(***************************************************************************)
(* Claims about the upload endpoint.                                       *)
(***************************************************************************)
\* the chunk of a request that declares offset 0: a Content-Range starting at
\* 0, or the first request of an upload, which carries no Content-Range
AtOffsetZero(r) == r.range = 0 \/ r.range = NoRange

\* C1: when the only two requests for a filename are chunk A at offset 0 and
\* chunk B at offset len(A), in either order, <filename>.tmp holds A followed
\* by B.
C1_ChunksReassemble ==
    \A i \in 1..2 : \A j \in (1..2) \ {i} :
        ( /\ Len(reqlog) = 2
          /\ reqlog[i].filename = reqlog[j].filename
          /\ AtOffsetZero(reqlog[i])
          /\ reqlog[j].range = Len(reqlog[i].payload) )
        => files[UploadPath(reqlog[i].filename)]
               = reqlog[i].payload \o reqlog[j].payload

\* C2: a request that repeats the previous one (same filename, same declared
\* start offset, same bytes) leaves every file as the previous one left it.
C2_ResubmitIdempotent ==
    [][ ( /\ last.op = "upload"
          /\ last.range # NoRange
          /\ reqlog' # reqlog
          /\ last' = last )
        => files' = files ]_vars

====
